---- MODULE Spec2Model ----
(***************************************************************************)
(* State-machine model of the Setup Coach page (pages/2_Setup_Coach.py).   *)
(*                                                                         *)
(* Numbers.  Every setup delta, limit and increment is kept as an integer   *)
(* count of hundredths of its garage unit (0.5 psi = 50, 25 lb/in = 2500), *)
(* bank_factor and angle_factor as hundredths (1.25 = 125), so their       *)
(* product is in ten-thousandths (1.5625 = 15625).  Temperatures are whole *)
(* degrees F, as st.number_input returns them.                             *)
(*                                                                         *)
(* Strings.  A suggestion string "LF_pressure: -0.5 psi" is the record     *)
(*   [name |-> <<"LF","pressure">>, plus |-> FALSE, val |-> -50,           *)
(*    units |-> " psi"]                                                    *)
(* name = <<side prefix, rest>>, plus = an explicit '+' is printed before  *)
(* the number, val = the printed number.                                   *)
(***************************************************************************)
EXTENDS Integers, Sequences, FiniteSets, TLC

VARIABLES
    tracks,          \* which tracks.json document is loaded (a key of Docs)
    track_pick,      \* sidebar selectbox "Track"
    coach_track,     \* st.session_state._coach_track
    coach_feedback,  \* st.session_state.coach_feedback : corner -> feedback
    widget_feel,     \* widget state of the "<c> feel" selectboxes, by key
    widget_sev,      \* widget state of the "<c> severity" sliders, by key
    baseline_temp,   \* number_input "Baseline Setup Temperature"
    current_temp,    \* number_input "Current Track Temperature"
    outcome,         \* what the last script run showed: idle/nothing/plan/raised
    temp_out,        \* locals of the Compute Suggestions handler ...
    temp_diff,
    temp_scale,
    per_corner,
    agg,
    findings,        \* the "Key Findings" bullets written by the last run
    plan,            \* the dict offered by the download button, or NoPlan
    run_type,        \* sidebar radio "Run type"
    limits,          \* which "limits" object setup_rules holds (a key of LimitTables)
    \* pages/1_Telemetry_Viewer.py, a file being loaded
    user_flags,      \* st.session_state.user_flags : distance flags
    user_flags_map,  \* st.session_state.user_flags_map : map flags
    start_pct,       \* number_input "Start %", in thousandths
    end_pct,         \* number_input "End %", in thousandths
    flag_type,       \* selectbox "Type" of the Flags & Export tab
    flag_msg,        \* what the Flags & Export tab reported in the last run
    \* the export sections of tuner_main.py and pages/1_Telemetry_Viewer.py
    export_page,     \* the script whose export section ran last, or "none"
    export_input,    \* the summary as it was built
    export_summary,  \* the summary dict after build_chatgpt_export returned
    export_text,     \* export_text, as a list of lines
    \* collect_ibt of pages/1_Telemetry_ViewerTest.py
    ibt,             \* position and locals of the sample-reading loop
    ibt_src          \* the source: SessionTime of the frozen buffer, reads this second

coach_vars == <<tracks, track_pick, coach_track, coach_feedback, widget_feel,
                widget_sev, baseline_temp, current_temp, outcome, temp_out,
                temp_diff, temp_scale, per_corner, agg, findings, plan, run_type,
                limits>>

viewer_vars == <<user_flags, user_flags_map, start_pct, end_pct, flag_type, flag_msg>>

\* the state of the pages other than the Setup Coach
export_vars == <<export_page, export_input, export_summary, export_text>>

ibt_vars == <<ibt, ibt_src>>

other_pages == <<viewer_vars, export_vars, ibt_vars>>

vars == <<coach_vars, other_pages>>

----------------------------------------------------------------------------
(* Bounds of the explored input space *)

\* the current temperature is explored within DefaultBaseline +/- MaxTempDiff
MaxTempDiff == 21
\* the baseline temperature is explored within DefaultBaseline .. +MaxBaselineShift
MaxBaselineShift == 1
\* the Telemetry Viewer is explored up to this many distance flags and map flags
MaxFlags == 2
MaxMapFlags == 1
\* the sample-reading loop gets through at most this many ticks per second
ReadsPerSecond == 1

----------------------------------------------------------------------------
(* Static tables *)

None == [none |-> TRUE]
IsNone(x) == "none" \in DOMAIN x
NoPlan == [none |-> TRUE]

Categories == <<"tires", "chassis", "suspension", "rear_end">>
CategorySet == {"tires", "chassis", "suspension", "rear_end"}

EmptyBlock == [tires |-> <<>>, chassis |-> <<>>, suspension |-> <<>>, rear_end |-> <<>>]

N(side, rest) == <<side, rest>>

ALLOWED ==
    [tires |-> << N("LF","pressure"), N("RF","pressure"),
                  N("LR","pressure"), N("RR","pressure") >>,
     suspension |-> << N("LF","shock_rebound_clicks"), N("RF","shock_rebound_clicks"),
                       N("LR","shock_rebound_clicks"), N("RR","shock_rebound_clicks"),
                       N("LF","shock_bump_clicks"), N("RF","shock_bump_clicks"),
                       N("LR","shock_bump_clicks"), N("RR","shock_bump_clicks"),
                       N("","front_swaybar_stiffness"), N("","rear_swaybar_stiffness"),
                       N("","front_spring_rate"), N("","rear_spring_rate") >>,
     chassis |-> << N("","crossweight_percent"), N("","front_ride_height_in"),
                    N("","rear_ride_height_in"), N("","rear_trackbar_in") >>,
     rear_end |-> << N("","diff_preload_ftlbs"), N("","gear_note") >>]

\* fallback: the table in the code, used when the rules file has no "limits";
\* file: a rules file that sets other min/max values and the same increments
LimitTables ==
    [fallback |->
        [pressure     |-> [min |-> 1000,  max |-> 6000,   increments |-> 50],
         shock_clicks |-> [min |-> 0,     max |-> 1000,   increments |-> 100],
         spring_rate  |-> [min |-> 10000, max |-> 220000, increments |-> 2500],
         ride_height  |-> [min |-> 200,   max |-> 600,    increments |-> 5],
         crossweight  |-> [min |-> 4500,  max |-> 5500,   increments |-> 10],
         trackbar     |-> [min |-> 500,   max |-> 1200,   increments |-> 25],
         diff_preload |-> [min |-> 0,     max |-> 7500,   increments |-> 500]],
     file |->
        [pressure     |-> [min |-> 1200,  max |-> 5500,   increments |-> 50],
         shock_clicks |-> [min |-> 100,   max |-> 2000,   increments |-> 100],
         spring_rate  |-> [min |-> 20000, max |-> 300000, increments |-> 2500],
         ride_height  |-> [min |-> 300,   max |-> 700,    increments |-> 5],
         crossweight  |-> [min |-> 4800,  max |-> 5800,   increments |-> 10],
         trackbar     |-> [min |-> 600,   max |-> 1400,   increments |-> 25],
         diff_preload |-> [min |-> 1000,  max |-> 10000,  increments |-> 500]]]

\* LIM = setup_rules.get("limits", fallback), read again by every script run
LIM == LimitTables[limits]

DEFAULT_FEELINGS ==
    << "No issue / skip",
       "Loose on entry", "Loose mid-corner", "Loose on exit",
       "Tight on entry", "Tight mid-corner", "Tight on exit",
       "Brakes locking", "Traction wheelspin", "Porpoising / Bottoming", "Other" >>

Range(s) == { s[i] : i \in DOMAIN s }

InList(x, list) == \E i \in DOMAIN list : list[i] = x

----------------------------------------------------------------------------
(* Helpers *)

\* mutant: the tier edges are exclusive
sev_bucket_strict(n) ==
    IF n < 3 THEN "slight" ELSE (IF n < 7 THEN "moderate" ELSE "severe")

sev_bucket(n) ==
    IF n <= 3 THEN "slight" ELSE (IF n <= 7 THEN "moderate" ELSE "severe")

Abs(x) == IF x < 0 THEN -x ELSE x

\* mutant: an exact half is rounded up, floor(x + 1/2)
round_half_up(num, den) == (2 * num + den) \div (2 * den)

\* Python round() of the exact quotient num/den (den > 0): nearest integer,
\* an exact half goes to the even neighbour
round(num, den) ==
    LET fl  == num \div den
        rem == num - fl * den
    IN  IF 2 * rem > den THEN fl + 1
        ELSE IF 2 * rem < den THEN fl
        ELSE IF fl % 2 = 0 THEN fl ELSE fl + 1

\* format spec ":g" on a number of hundredths: six significant digits
RECURSIVE fmt_g(_)
fmt_g(v) ==
    IF Abs(v) < 1000000 THEN v ELSE 10 * fmt_g(round(v, 10))

mk_delta(name, delta, units) ==
    [name |-> name, plus |-> (delta > 0), val |-> fmt_g(delta), units |-> units]


\* dict.get(key, default)
Get(d, key, default) == IF key \in DOMAIN d THEN d[key] ELSE default

\* s.upper()[0] for the direction strings met in track documents
upper_first(s) ==
    CASE s \in {"R", "r", "Right", "right"} -> "R"
      [] s \in {"L", "l", "Left", "left"}   -> "L"
      [] s \in {"M", "m", "Mixed", "mixed"} -> "M"
      [] s \in {"Chicane", "chicane"}       -> "C"
      [] OTHER -> s

\* "x or y" on strings: the empty string and a missing key (None) are falsy
StrOr(d, key, other) ==
    IF key \in DOMAIN d /\ d[key] # "" THEN d[key] ELSE other

\* "float(x or d)" on numbers: 0 and a missing key are falsy
NumOr(d, key, other) ==
    IF key \in DOMAIN d /\ d[key] # 0 THEN d[key] ELSE other

DefaultCorner(name) ==
    [name |-> name, dir |-> "M", bank_deg |-> 0, angle_deg |-> 90]

RECURSIVE corner_items(_)
corner_items(raw) ==
    IF raw = <<>> THEN <<>>
    ELSE LET item == Head(raw)
             rest == corner_items(Tail(raw))
         IN  IF item.kind = "str"
                THEN <<DefaultCorner(item.value)>> \o rest
             ELSE IF item.kind = "dict"
                THEN << [name      |-> StrOr(item.value, "name",
                                             StrOr(item.value, "corner", "Corner")),
                         dir       |-> upper_first(StrOr(item.value, "dir",
                                             StrOr(item.value, "direction", "M"))),
                         bank_deg  |-> NumOr(item.value, "bank_deg", 0),
                         angle_deg |-> NumOr(item.value, "angle_deg", 90)] >> \o rest
             ELSE rest

corner_list_with_meta(track_obj) ==
    LET raw == Get(track_obj, "corners", <<>>)
    IN  IF raw = <<>> THEN <<DefaultCorner("T1")>> ELSE corner_items(raw)

\* mutant: the low-bank edge is exclusive
bank_factor_strict(bank_deg) ==
    IF bank_deg < 4 THEN 125 ELSE IF bank_deg <= 12 THEN 100 ELSE 80

bank_factor(bank_deg) ==
    IF bank_deg <= 4 THEN 125 ELSE IF bank_deg <= 12 THEN 100 ELSE 80

angle_factor(angle_deg) ==
    IF angle_deg >= 120 THEN 125 ELSE IF angle_deg >= 60 THEN 100 ELSE 85

\* the family keywords that occur as substrings of a lower-cased parameter name
Keywords(name) ==
    LET rest == name[2]
    IN  CASE rest = "pressure"             -> {"pressure"}
          [] rest = "shock_rebound_clicks" -> {"shock", "click"}
          [] rest = "shock_bump_clicks"    -> {"shock", "click"}
          [] rest \in {"front_spring_rate", "rear_spring_rate"} -> {"spring_rate"}
          [] rest = "crossweight_percent"  -> {"crossweight"}
          [] rest = "rear_trackbar_in"     -> {"trackbar"}
          [] rest \in {"front_ride_height_in", "rear_ride_height_in"} -> {"ride_height"}
          [] rest = "diff_preload_ftlbs"   -> {"diff_preload"}
          [] OTHER -> {}

step_for_param(pname) ==
    LET kw == Keywords(pname)
    IN  IF "pressure" \in kw THEN LIM.pressure.increments
        ELSE IF "shock" \in kw /\ "click" \in kw THEN LIM.shock_clicks.increments
        ELSE IF "spring_rate" \in kw THEN LIM.spring_rate.increments
        ELSE IF "crossweight" \in kw THEN LIM.crossweight.increments
        ELSE IF "trackbar" \in kw THEN LIM.trackbar.increments
        ELSE IF "ride_height" \in kw THEN LIM.ride_height.increments
        ELSE IF "diff_preload" \in kw THEN LIM.diff_preload.increments
        ELSE 100

\* mutant: the snapped delta is clamped into [min, max] of its family, as if
\* it were an absolute setting
scale_one_clamped(txt, factor) ==
    LET step == step_for_param(txt.name)
        kw == Keywords(txt.name)
        fam == IF "pressure" \in kw THEN "pressure"
               ELSE IF "shock" \in kw /\ "click" \in kw THEN "shock_clicks"
               ELSE IF "spring_rate" \in kw THEN "spring_rate"
               ELSE IF "crossweight" \in kw THEN "crossweight"
               ELSE IF "trackbar" \in kw THEN "trackbar"
               ELSE IF "ride_height" \in kw THEN "ride_height"
               ELSE IF "diff_preload" \in kw THEN "diff_preload"
               ELSE "none"
    IN  IF step = 0 THEN txt
        ELSE LET snapped == round(txt.val * factor, step * 100 * 100) * step
                 clamped == IF fam = "none" THEN snapped
                            ELSE IF snapped < LIM[fam].min THEN LIM[fam].min
                            ELSE IF snapped > LIM[fam].max THEN LIM[fam].max
                            ELSE snapped
             IN  [txt EXCEPT !.plus = FALSE, !.val = fmt_g(clamped)]

\* mutant: the value is rounded before it is divided by the step
scale_one_undivided(txt, factor) ==
    LET step == step_for_param(txt.name)
    IN  IF step = 0 THEN txt
        ELSE [txt EXCEPT !.plus = FALSE,
                         !.val = fmt_g(round(txt.val * factor, 100 * 100 * 100) * step)]

\* mutant: the quotient is truncated toward zero instead of rounded
scale_one_truncated(txt, factor) ==
    LET step == step_for_param(txt.name)
    IN  IF step = 0 THEN txt
        ELSE LET q == Abs(txt.val * factor) \div (step * 100 * 100)
                 snapped == (IF txt.val < 0 THEN -q ELSE q) * step
             IN  [txt EXCEPT !.plus = FALSE, !.val = fmt_g(snapped)]

\* mutant: the product is printed without snapping it to the step
scale_one_unsnapped(txt, factor) ==
    [txt EXCEPT !.plus = FALSE, !.val = fmt_g(round(txt.val * factor, 100 * 100))]

\* txt is a suggestion record, factor is in ten-thousandths.  The regex finds
\* the signed number, the product is snapped to the step and printed with :g,
\* which never prints a '+'.  A zero step raises inside the try: txt is kept.
scale_one(txt, factor) ==
    LET step == step_for_param(txt.name)
    IN  IF step = 0 THEN txt
        ELSE LET snapped == round(txt.val * factor, step * 100 * 100) * step
             IN  [txt EXCEPT !.plus = FALSE, !.val = fmt_g(snapped)]

scale_deltas_in_strings(sugg_dict, factor) ==
    [k \in DOMAIN sugg_dict |->
        [i \in DOMAIN sugg_dict[k] |-> scale_one(sugg_dict[k][i], factor)]]

\* the chain of str.replace calls acts on the side prefix of the name only
swap_one(txt) ==
    LET side == txt.name[1]
        s1 == IF side = "LF" THEN "__TMP_F__" ELSE side
        s2 == IF s1 = "RF" THEN "LF" ELSE s1
        s3 == IF s2 = "__TMP_F__" THEN "RF" ELSE s2
        s4 == IF s3 = "LR" THEN "__TMP_R__" ELSE s3
        s5 == IF s4 = "RR" THEN "LR" ELSE s4
        s6 == IF s5 = "__TMP_R__" THEN "RR" ELSE s5
    IN  [txt EXCEPT !.name = <<s6, txt.name[2]>>]

\* the dict comprehension sits after "return txt" inside swap_one, so the
\* body of mirror_sides is only the nested def: the call returns None
mirror_sides(suggestions_dict) == None


----------------------------------------------------------------------------
(* Rule engine *)

\* one guarded append of the rule code:
\*   if name in ALLOWED.get(cat, []): out[cat].append(mk_delta(name, delta, units))
Cand(cat, name, delta, units) ==
    [cat |-> cat, name |-> name, delta |-> delta, units |-> units]

\* mutant: a chassis line is appended to the suspension list
RECURSIVE AppendAllowed_misfiled(_, _)
AppendAllowed_misfiled(out, cands) ==
    IF cands = <<>> THEN out
    ELSE LET c == Head(cands)
             k == IF c.cat = "chassis" THEN "suspension" ELSE c.cat
             nxt == IF InList(c.name, ALLOWED[c.cat])
                       THEN [out EXCEPT ![k] =
                                Append(@, mk_delta(c.name, c.delta, c.units))]
                       ELSE out
         IN  AppendAllowed_misfiled(nxt, Tail(cands))

RECURSIVE AppendAllowed(_, _)
AppendAllowed(out, cands) ==
    IF cands = <<>> THEN out
    ELSE LET c == Head(cands)
             nxt == IF InList(c.name, ALLOWED[c.cat])
                       THEN [out EXCEPT ![c.cat] =
                                Append(@, mk_delta(c.name, c.delta, c.units))]
                       ELSE out
         IN  AppendAllowed(nxt, Tail(cands))

\* mutant: the tier edges are exclusive
temp_scale_from_diff_strict(diff) ==
    LET ad == Abs(diff)
    IN  IF ad < 5 THEN 0 ELSE IF ad < 10 THEN 1 ELSE IF ad < 20 THEN 2 ELSE 3

temp_scale_from_diff(diff) ==
    LET ad == Abs(diff)
    IN  IF ad <= 5 THEN 0 ELSE IF ad <= 10 THEN 1 ELSE IF ad <= 20 THEN 2 ELSE 3

\* mutant: the sign test is inverted
is_hotter_inverted(diff) == diff < 0

is_hotter(diff) == diff > 0

\* mutant: the cooler branch is the hotter branch with every delta negated
temp_extra_negated(hotter, scale) ==
    LET spring_step == LIM.spring_rate.increments
        diff_step == LIM.diff_preload.increments
    IN  IF hotter
           THEN << Cand("suspension", N("","rear_spring_rate"),
                        spring_step * scale, " lb/in"),
                   Cand("rear_end", N("","diff_preload_ftlbs"),
                        diff_step * scale, " ft-lbs") >>
           ELSE << Cand("suspension", N("","rear_spring_rate"),
                        -(spring_step * scale), " lb/in"),
                   Cand("rear_end", N("","diff_preload_ftlbs"),
                        -(diff_step * scale), " ft-lbs") >>

\* "if hotter: ... else: ...": the lines after the pressure and bump loops
temp_extra(hotter, scale) ==
    LET spring_step == LIM.spring_rate.increments
        diff_step == LIM.diff_preload.increments
        ride_step == LIM.ride_height.increments
    IN  IF hotter
           THEN << Cand("suspension", N("","rear_spring_rate"),
                        spring_step * scale, " lb/in"),
                   Cand("rear_end", N("","diff_preload_ftlbs"),
                        diff_step * scale, " ft-lbs") >>
           ELSE << Cand("rear_end", N("","diff_preload_ftlbs"),
                        -(diff_step * scale), " ft-lbs"),
                   Cand("chassis", N("","rear_ride_height_in"),
                        ride_step * scale, " in") >>

suggest_for_temp(baseline, current) ==
    LET diff == current - baseline
        scale == temp_scale_from_diff(diff)
        psi_step == LIM.pressure.increments
        shock_step == LIM.shock_clicks.increments
        hotter == is_hotter(diff)
        sides == <<"LF", "RF", "LR", "RR">>
        tires == [i \in 1..4 |->
                    Cand("tires", N(sides[i], "pressure"),
                         IF hotter THEN -(psi_step * scale) ELSE psi_step * scale,
                         " psi")]
        bumps == [i \in 1..4 |->
                    Cand("suspension", N(sides[i], "shock_bump_clicks"),
                         IF hotter THEN shock_step * scale ELSE -(shock_step * scale),
                         " clicks")]
        tail == temp_extra(hotter, scale)
    IN  IF scale = 0
           THEN [out |-> EmptyBlock, diff |-> diff, scale |-> scale]
           ELSE [out |-> AppendAllowed(EmptyBlock, tires \o bumps \o tail),
                 diff |-> diff, scale |-> scale]

\* the rule phrases that occur as substrings of feel.lower()
Phrases(feel) ==
    CASE feel = "Loose on entry"         -> {"loose on entry"}
      [] feel = "Loose mid-corner"       -> {"loose mid-corner"}
      [] feel = "Loose on exit"          -> {"loose on exit"}
      [] feel = "Tight on entry"         -> {"tight on entry"}
      [] feel = "Tight mid-corner"       -> {"tight mid-corner"}
      [] feel = "Tight on exit"          -> {"tight on exit"}
      [] feel = "Brakes locking"         -> {"brakes locking"}
      [] feel = "Traction wheelspin"     -> {"traction wheelspin"}
      [] feel = "Porpoising / Bottoming" -> {"porpoising", "bottoming"}
      [] OTHER -> {}

\* mutant: the severe tier takes four steps
sev_multiplier_steep(sev) ==
    CASE sev = "slight" -> 1 [] sev = "moderate" -> 2 [] sev = "severe" -> 4

\* scale = {"slight":1, "moderate":2, "severe":3}[sev]
sev_multiplier(sev) ==
    CASE sev = "slight" -> 1 [] sev = "moderate" -> 2 [] sev = "severe" -> 3

\* the guarded appends of suggest_for_symptom that feel reaches, in code order
symptom_rules(feel, sev) ==
    LET scale == sev_multiplier(sev)
        psi_step == LIM.pressure.increments
        trackbar_step == LIM.trackbar.increments
        xwt_step == LIM.crossweight.increments
        shock_step == LIM.shock_clicks.increments
        spring_step == LIM.spring_rate.increments
        diff_step == LIM.diff_preload.increments
        f == Phrases(feel)
        If(cond, cands) == IF cond THEN cands ELSE <<>>
    IN    If("loose on entry" \in f,
             << Cand("tires", N("LF","pressure"), -(psi_step * scale), " psi"),
                Cand("tires", N("RR","pressure"), -(psi_step * scale), " psi"),
                Cand("chassis", N("","rear_trackbar_in"), -(trackbar_step * scale), " in"),
                Cand("chassis", N("","crossweight_percent"), xwt_step * scale, " %"),
                Cand("suspension", N("LF","shock_rebound_clicks"), shock_step * scale, " clicks") >>)
          \o
          If("loose mid-corner" \in f,
             << Cand("suspension", N("","rear_swaybar_stiffness"), -(100 * scale), " step"),
                Cand("suspension", N("","front_swaybar_stiffness"), 100 * scale, " step"),
                Cand("suspension", N("","rear_spring_rate"), -(spring_step * scale), " lb/in"),
                Cand("tires", N("RR","pressure"), -(psi_step * scale), " psi") >>)
          \o
          If("loose on exit" \in f,
             << Cand("rear_end", N("","diff_preload_ftlbs"), diff_step * scale, " ft-lbs"),
                Cand("chassis", N("","rear_trackbar_in"), -(trackbar_step * scale), " in"),
                Cand("tires", N("RR","pressure"), -(psi_step * scale), " psi"),
                Cand("suspension", N("RR","shock_rebound_clicks"), -(shock_step * scale), " clicks") >>)
          \o
          If("tight on entry" \in f,
             << Cand("chassis", N("","crossweight_percent"), -(xwt_step * scale), " %"),
                Cand("chassis", N("","rear_trackbar_in"), trackbar_step * scale, " in"),
                Cand("tires", N("RF","pressure"), -(psi_step * scale), " psi") >>)
          \o
          If("tight mid-corner" \in f,
             << Cand("suspension", N("","front_swaybar_stiffness"), -(100 * scale), " step"),
                Cand("suspension", N("","rear_swaybar_stiffness"), 100 * scale, " step"),
                Cand("suspension", N("","front_spring_rate"), -(spring_step * scale), " lb/in"),
                Cand("tires", N("LF","pressure"), -(psi_step * scale), " psi") >>)
          \o
          If("tight on exit" \in f,
             << Cand("rear_end", N("","diff_preload_ftlbs"), -(diff_step * scale), " ft-lbs"),
                Cand("chassis", N("","rear_trackbar_in"), trackbar_step * scale, " in"),
                Cand("tires", N("RR","pressure"), psi_step * scale, " psi") >>)
          \o
          If("brakes locking" \in f,
             << Cand("suspension", N("LF","shock_rebound_clicks"), -(shock_step * scale), " clicks"),
                Cand("tires", N("RF","pressure"), -(psi_step * scale), " psi") >>)
          \o
          If("traction wheelspin" \in f,
             << Cand("suspension", N("RR","shock_rebound_clicks"), -(shock_step * scale), " clicks"),
                Cand("rear_end", N("","diff_preload_ftlbs"), diff_step * scale, " ft-lbs"),
                Cand("tires", N("RR","pressure"), -(psi_step * scale), " psi") >>)
          \o
          If("porpoising" \in f \/ "bottoming" \in f,
             << Cand("suspension", N("","front_spring_rate"), spring_step * scale, " lb/in"),
                Cand("suspension", N("","rear_spring_rate"), spring_step * scale, " lb/in"),
                Cand("chassis", N("","front_ride_height_in"),
                     LIM.ride_height.increments * scale, " in") >>)

suggest_for_symptom(feel, sev) ==
    AppendAllowed(EmptyBlock, symptom_rules(feel, sev))


----------------------------------------------------------------------------------------------------------------------------------------
(* Track documents (the content of tracks.json) *)

D(name, dir, bank, angle) ==
    [kind |-> "dict",
     value |-> [name |-> name, dir |-> dir, bank_deg |-> bank, angle_deg |-> angle]]

S(name) == [kind |-> "str", value |-> name]

Track(name, corners) == [name |-> name, obj |-> [corners |-> corners]]

\* single-corner tracks that cover every bank/angle band and its edges
CornerDoc ==
    << Track("A flat hairpin right",  << D("T1", "R", 2, 150) >>),
       Track("B banked kink left",    << D("T1", "L", 20, 30) >>),
       Track("C edge 4-120",          << D("T1", "L", 4, 120) >>),
       Track("D edge 5-119",          << D("T1", "left", 5, 119) >>),
       Track("E edge 12-60",          << D("T1", "M", 12, 60) >>),
       Track("F edge 13-59",          << D("T1", "L", 13, 59) >>),
       Track("G flat kink",           << D("T1", "L", 2, 30) >>),
       Track("H bare name",           << S("T1") >>),
       Track("I no corners",          << >>) >>

\* tracks of two corners, for the order and the independence of contributions
CircuitDoc ==
    << Track("Left then left",  << D("T1", "L", 8, 90), D("T2", "L", 2, 150) >>),
       Track("Right then left", << [kind |-> "dict",
                                    value |-> [corner |-> "T1", direction |-> "right",
                                               bank_deg |-> 8]],
                                   D("T2", "L", 20, 30) >>) >>

\* tracks whose corners differ in name, one of them a chicane
NamedDoc ==
    << Track("Oval",        << D("T1", "L", 8, 90), D("T3", "L", 8, 90) >>),
       Track("Road course", << D("T1", "L", 2, 150), D("Bus Stop", "Chicane", 8, 90) >>) >>

Docs == [corner |-> CornerDoc, circuit |-> CircuitDoc, named |-> NamedDoc]


----------------
(* The script: one run per user interaction *)

DefaultBaseline == 85
MinTemp == 40
MaxTemp == 150
MaxSeverity == 10

Skip == DEFAULT_FEELINGS[1]

DefaultFeedback == [feels |-> Skip, severity |-> 0]

\* tracks is the document as a list of [name, obj] in sorted key order
track_names(doc) ==
    IF doc = <<>> THEN <<"Unknown Track">> ELSE [i \in DOMAIN doc |-> doc[i].name]

track_object(doc, name) ==
    IF \E i \in DOMAIN doc : doc[i].name = name
       THEN (CHOOSE e \in Range(doc) : e.name = name).obj
       ELSE <<>>

InitialTrack(doc) ==
    LET names == track_names(doc)
    IN  IF InList("Watkins Glen International (Cup)", names)
           THEN "Watkins Glen International (Cup)" ELSE names[1]

corner_labels(corners_meta) == [i \in DOMAIN corners_meta |-> corners_meta[i].name]

dir_labels == [L |-> "Left", R |-> "Right", M |-> "Mixed"]

\* mutant: the sentinel symptom is not tested
contributes_by_severity(feel, severity) == severity > 0

\* the test that lets a corner into the run
contributes(feel, severity) == feel # Skip /\ severity > 0

\* mutant: the corner's factor is applied to the whole aggregate
extend_agg_rescaled(a, item) ==
    scale_deltas_in_strings([k \in CategorySet |-> a[k] \o item.suggestions[k]],
                            item.factor)

\* for k in agg: agg[k].extend(s[k])
extend_agg(a, item) == [k \in CategorySet |-> a[k] \o item.suggestions[k]]

\* mutant: every corner that is not a left-hander has its sides swapped
mirrored_unless_left(dir, s) ==
    IF dir # "L"
       THEN [k \in DOMAIN s |-> [i \in DOMAIN s[k] |-> swap_one(s[k][i])]]
       ELSE s

\* s after "if dir starts with R: s = mirror_sides(s)"
mirrored_if_right(dir, s) == IF dir = "R" THEN mirror_sides(s) ELSE s

\* the dict appended to per_corner for a contributing corner
corner_item(meta, feel, sev, fac) ==
    [corner |-> meta.name, feel |-> feel, severity |-> sev,
     dir |-> meta.dir, bank_deg |-> meta.bank_deg,
     angle_deg |-> meta.angle_deg, factor |-> fac,
     suggestions |-> mirrored_if_right(meta.dir,
                        scale_deltas_in_strings(suggest_for_symptom(feel, sev), fac))]

\* mutant: the corner's lines are put in front of what agg holds
add_item_front(st, item) ==
    IF IsNone(item.suggestions)
       THEN [st EXCEPT !.per_corner = Append(@, item), !.raised = TRUE]
       ELSE [st EXCEPT !.per_corner = Append(@, item),
                       !.agg = [k \in CategorySet |-> item.suggestions[k] \o st.agg[k]]]

\* per_corner.append(item), then agg[k].extend(s[k]), which raises TypeError
\* when s is None
add_item(st, item) ==
    IF IsNone(item.suggestions)
       THEN [st EXCEPT !.per_corner = Append(@, item), !.raised = TRUE]
       ELSE [st EXCEPT !.per_corner = Append(@, item), !.agg = extend_agg(@, item)]

\* the body of "for meta in corners_meta"; st = [agg, per_corner, raised]
corner_body(meta, fb, st) ==
    IF contributes(fb.feels, fb.severity)
       THEN add_item(st, corner_item(meta, fb.feels, sev_bucket(fb.severity),
                        bank_factor(meta.bank_deg) * angle_factor(meta.angle_deg)))
       ELSE st

\* the per-corner loop of the Compute Suggestions handler, from corner i on
RECURSIVE corner_loop(_, _, _, _)
corner_loop(corners_meta, feedback, i, st) ==
    IF i > Len(corners_meta) \/ st.raised THEN st
    ELSE corner_loop(corners_meta, feedback, i + 1,
            corner_body(corners_meta[i],
                        Get(feedback, corners_meta[i].name, DefaultFeedback), st))

corner_finding(item) ==
    [kind |-> "corner", corner |-> item.corner, dir_label |-> dir_labels[item.dir],
     bank_deg |-> item.bank_deg, angle_deg |-> item.angle_deg,
     factor |-> item.factor, feel |-> item.feel, severity |-> item.severity]

\* the "Key Findings" bullets of the corners; the direction label lookup
\* raises KeyError for a direction letter other than L, R, M
RECURSIVE corner_findings(_, _, _)
corner_findings(items, i, st) ==
    IF i > Len(items) \/ st.raised THEN st
    ELSE corner_findings(items, i + 1,
            IF items[i].dir \notin DOMAIN dir_labels
               THEN [st EXCEPT !.raised = TRUE]
               ELSE [st EXCEPT !.findings = Append(@, corner_finding(items[i]))])

\* mutant: the temperature bullet is written whatever the tier
temp_finding_always(t) ==
    << [kind |-> "temp", degrees |-> Abs(t.diff),
        direction |-> IF t.diff > 0 THEN "hotter" ELSE "cooler"] >>

temp_finding(t) ==
    IF t.scale > 0
       THEN << [kind |-> "temp", degrees |-> Abs(t.diff),
                direction |-> IF t.diff > 0 THEN "hotter" ELSE "cooler"] >>
       ELSE <<>>

\* mutant: the plan carries the findings in place of the corners used
output_with_findings(t, loop, out, baseline, current, track, rtype) ==
    [temp_out |-> t.out, temp_diff |-> t.diff, temp_scale |-> t.scale,
     per_corner |-> loop.per_corner, agg |-> loop.agg,
     findings |-> IF loop.raised \/ (loop.per_corner = <<>> /\ t.scale = 0)
                     THEN <<>> ELSE out.findings,
     outcome |-> IF loop.raised THEN "raised"
                 ELSE IF loop.per_corner = <<>> /\ t.scale = 0 THEN "nothing"
                 ELSE IF out.raised THEN "raised"
                 ELSE "plan",
     plan |-> IF loop.raised \/ (loop.per_corner = <<>> /\ t.scale = 0) \/ out.raised
                 THEN NoPlan
                 ELSE [track |-> track, run_type |-> rtype,
                       baseline_temp_f |-> baseline, current_temp_f |-> current,
                       findings |-> out.findings,
                       recommendations |-> loop.agg]]

\* mutant: the plan is built also when there is nothing to change
output_always_plan(t, loop, out, baseline, current, track, rtype) ==
    [temp_out |-> t.out, temp_diff |-> t.diff, temp_scale |-> t.scale,
     per_corner |-> loop.per_corner, agg |-> loop.agg,
     findings |-> IF loop.raised THEN <<>> ELSE out.findings,
     outcome |-> IF loop.raised \/ out.raised THEN "raised" ELSE "plan",
     plan |-> IF loop.raised \/ out.raised
                 THEN NoPlan
                 ELSE [track |-> track, run_type |-> rtype,
                       baseline_temp_f |-> baseline, current_temp_f |-> current,
                       temp_diff_f |-> current - baseline,
                       corners_used |-> loop.per_corner,
                       recommendations |-> loop.agg, limits |-> LIM]]

\* "# --- Output ---": what the run shows once the loops are done
output(t, loop, out, baseline, current, track, rtype) ==
    [temp_out |-> t.out, temp_diff |-> t.diff, temp_scale |-> t.scale,
     per_corner |-> loop.per_corner, agg |-> loop.agg,
     findings |-> IF loop.raised \/ (loop.per_corner = <<>> /\ t.scale = 0)
                     THEN <<>> ELSE out.findings,
     outcome |-> IF loop.raised THEN "raised"
                 ELSE IF loop.per_corner = <<>> /\ t.scale = 0 THEN "nothing"
                 ELSE IF out.raised THEN "raised"
                 ELSE "plan",
     plan |-> IF loop.raised \/ (loop.per_corner = <<>> /\ t.scale = 0) \/ out.raised
                 THEN NoPlan
                 ELSE [track |-> track, run_type |-> rtype,
                       baseline_temp_f |-> baseline, current_temp_f |-> current,
                       temp_diff_f |-> current - baseline,
                       corners_used |-> loop.per_corner,
                       recommendations |-> loop.agg, limits |-> LIM]]

\* "# 2) Corner-based rules" and the output, given the loop's result
after_loop(t, loop, baseline, current, track, rtype) ==
    output(t, loop,
           corner_findings(loop.per_corner, 1,
                           [findings |-> temp_finding(t), raised |-> FALSE]),
           baseline, current, track, rtype)

\* mutant: agg is not emptied, the lists of the previous run are extended
after_temp_accumulating(t, corners_meta, feedback, baseline, current, track, rtype) ==
    after_loop(t,
               corner_loop(corners_meta, feedback, 1,
                   [agg |-> [k \in CategorySet |-> agg[k] \o t.out[k]],
                    per_corner |-> <<>>, raised |-> FALSE]),
               baseline, current, track, rtype)

\* "# 1) Temp compensation": agg starts with the temperature block
after_temp(t, corners_meta, feedback, baseline, current, track, rtype) ==
    after_loop(t,
               corner_loop(corners_meta, feedback, 1,
                   [agg |-> [k \in CategorySet |-> EmptyBlock[k] \o t.out[k]],
                    per_corner |-> <<>>, raised |-> FALSE]),
               baseline, current, track, rtype)

\* the part of the script under "if btn:", as the values it leaves behind
compute_suggestions(corners_meta, feedback, baseline, current, track, rtype) ==
    after_temp(suggest_for_temp(baseline, current),
               corners_meta, feedback, baseline, current, track, rtype)

\* mutant: the feedback of the previous track is kept when the track changes
session_feedback_kept(t, labels) == coach_feedback

\* if "coach_feedback" not in st.session_state or _coach_track != track_pick:
\* the feedback is rebuilt with the defaults for the corners of the track
session_feedback(t, labels) ==
    IF coach_track # t THEN [x \in labels |-> DefaultFeedback] ELSE coach_feedback

\* the first corner of the input loop whose coach_feedback[c] lookup misses
\* (KeyError in the slider line), 0 when every lookup succeeds
first_missing(corners_meta, fb) ==
    LET bad == { i \in DOMAIN corners_meta : corners_meta[i].name \notin DOMAIN fb }
    IN  IF bad = {} THEN 0 ELSE CHOOSE i \in bad : \A j \in bad : i <= j

\* One run of the script: t is the selected track, wf/ws the widget state the
\* browser sends (keyed by corner), b/c the two temperatures, btn the button.
\* rt is the run type the sidebar radio holds.
\* Each local of the script is bound once, in the order the script assigns it.
RunWith(t, wf, ws, b, c, btn, rt) ==
    \E corners_meta \in {corner_list_with_meta(track_object(Docs[tracks], t))} :
    \E labels \in {Range(corner_labels(corners_meta))} :
    \E fb0 \in {session_feedback(t, labels)} :
    \* the input loop stops at the first corner whose feedback lookup misses
    \E stop \in {first_missing(corners_meta, fb0)} :
    \E shown \in {IF stop = 0 THEN labels
                   ELSE { corners_meta[i].name : i \in 1..(stop - 1) }} :
    \* a widget met for the first time shows its default
    \E wf1 \in {[x \in (IF stop = 0 THEN shown ELSE shown \cup {corners_meta[stop].name}) |->
                  IF x \in DOMAIN wf THEN wf[x] ELSE Skip]} :
    \E ws1 \in {[x \in shown |-> IF x \in DOMAIN ws THEN ws[x] ELSE fb0[x].severity]} :
    \E fb1 \in {[x \in (DOMAIN fb0) \cup shown |->
                  IF x \in shown THEN [feels |-> wf1[x], severity |-> ws1[x]]
                  ELSE fb0[x]]} :
        /\ track_pick' = t
        /\ coach_track' = t
        /\ coach_feedback' = fb1
        /\ widget_feel' = wf1
        /\ widget_sev' = ws1
        /\ baseline_temp' = b
        /\ current_temp' = c
        /\ IF stop # 0
              THEN /\ outcome' = "raised"
                   /\ temp_out' = EmptyBlock
                   /\ temp_diff' = 0
                   /\ temp_scale' = 0
                   /\ per_corner' = <<>>
                   /\ agg' = EmptyBlock
                   /\ findings' = <<>>
                   /\ plan' = NoPlan
           ELSE IF btn
              THEN \E r \in {compute_suggestions(corners_meta, fb1, b, c, t, rt)} :
                   /\ outcome' = r.outcome
                   /\ temp_out' = r.temp_out
                   /\ temp_diff' = r.temp_diff
                   /\ temp_scale' = r.temp_scale
                   /\ per_corner' = r.per_corner
                   /\ agg' = r.agg
                   /\ findings' = r.findings
                   /\ plan' = r.plan
              ELSE /\ outcome' = "idle"
                   /\ temp_out' = EmptyBlock
                   /\ temp_diff' = 0
                   /\ temp_scale' = 0
                   /\ per_corner' = <<>>
                   /\ agg' = EmptyBlock
                   /\ findings' = <<>>
                   /\ plan' = NoPlan
        /\ run_type' = rt
        /\ UNCHANGED <<tracks, limits, other_pages>>

\* a rerun that leaves the run type radio alone
Run(t, wf, ws, b, c, btn) == RunWith(t, wf, ws, b, c, btn, run_type)

RunTypes == {"Practice", "Qualifying", "Race"}

SetRunType(r) ==
    /\ r \in RunTypes
    /\ r # run_type
    /\ RunWith(track_pick, widget_feel, widget_sev, baseline_temp, current_temp,
               FALSE, r)

PickTrack(t) ==
    /\ t # track_pick
    /\ Run(t, widget_feel, widget_sev, baseline_temp, current_temp, FALSE)

SetFeel(c, f) ==
    /\ c \in DOMAIN widget_feel
    /\ f # widget_feel[c]
    /\ Run(track_pick, [widget_feel EXCEPT ![c] = f], widget_sev,
           baseline_temp, current_temp, FALSE)

SetSeverity(c, n) ==
    /\ c \in DOMAIN widget_sev
    /\ n # widget_sev[c]
    /\ Run(track_pick, widget_feel, [widget_sev EXCEPT ![c] = n],
           baseline_temp, current_temp, FALSE)

SetBaselineTemp(b) ==
    /\ b \in MinTemp..MaxTemp
    /\ b # baseline_temp
    /\ Run(track_pick, widget_feel, widget_sev, b, current_temp, FALSE)

SetCurrentTemp(c) ==
    /\ c \in MinTemp..MaxTemp
    /\ c # current_temp
    /\ Run(track_pick, widget_feel, widget_sev, baseline_temp, c, FALSE)

ComputeSuggestions ==
    Run(track_pick, widget_feel, widget_sev, baseline_temp, current_temp, TRUE)

\* the rules file is edited on disk: no script runs, the page stays as it is
\* and the next run loads the new "limits"
EditRules(r) ==
    /\ r \in DOMAIN LimitTables
    /\ r # limits
    /\ limits' = r
    /\ UNCHANGED <<tracks, track_pick, coach_track, coach_feedback, widget_feel,
                   widget_sev, baseline_temp, current_temp, outcome, temp_out,
                   temp_diff, temp_scale, per_corner, agg, findings, plan, run_type,
                   other_pages>>

----------------------------------------------------------------------------
(* pages/1_Telemetry_Viewer.py: the flags of the session.  A telemetry file
   is loaded (without one the script stops before the tabs).  The percent
   inputs are kept in thousandths; a map flag keeps its pixel position, the
   derived x_norm / y_norm are left out. *)

DefaultStartPct == 100
DefaultEndPct == 200
FlagTypes == <<"Loose on entry", "Loose mid", "Loose on exit", "Tight on entry",
               "Tight mid", "Tight on exit", "Other">>

\* size of the map image, w, h = image.size
MapW == 100
MapH == 50

Min(a, b) == IF a < b THEN a ELSE b
Max(a, b) == IF a > b THEN a ELSE b

\* "# ===== State =====" of the first run
InitViewer ==
    /\ user_flags = <<>>
    /\ user_flags_map = <<>>
    /\ start_pct = DefaultStartPct
    /\ end_pct = DefaultEndPct
    /\ flag_type = FlagTypes[1]
    /\ flag_msg = "none"

\* the marker stored for the last click, clamped to the image
map_flag(click) ==
    [x_px |-> Min(Max(click[1], 0), MapW), y_px |-> Min(Max(click[2], 0), MapH),
     type |-> FlagTypes[1], note |-> "", is_problem |-> TRUE]

\* the Track Map tab: a click appends a marker, then the clear button empties
map_tab(flags_map, clicks, clear_map) ==
    LET clicked == IF clicks # <<>>
                      THEN Append(flags_map, map_flag(clicks[Len(clicks)]))
                      ELSE flags_map
    IN  IF clear_map THEN <<>> ELSE clicked

distance_flag(sp, ep, ty) ==
    [start_pct |-> sp, end_pct |-> ep, type |-> ty, note |-> "", is_problem |-> TRUE]

\* mutant: the range is stored unchecked
add_distance_flag_unchecked(st, sp, ep, ty) ==
    [flags |-> Append(st.flags, distance_flag(sp, ep, ty)), msg |-> "added"]

\* "if add:" of the Flags & Export tab
add_distance_flag(st, sp, ep, ty) ==
    IF ep <= sp
       THEN [st EXCEPT !.msg = "warning"]
       ELSE [flags |-> Append(st.flags, distance_flag(sp, ep, ty)), msg |-> "added"]

\* "if clear:" of the Flags & Export tab
clear_distance_flags(st) == [flags |-> <<>>, msg |-> "cleared"]

\* the two buttons in script order
flags_tab(flags, sp, ep, ty, add, clear) ==
    LET st0 == [flags |-> flags, msg |-> "none"]
        st1 == IF add THEN add_distance_flag(st0, sp, ep, ty) ELSE st0
    IN  IF clear THEN clear_distance_flags(st1) ELSE st1

\* One run of the viewer script: sp, ep, ty are the widget values the browser
\* sends, add / clear / clear_map the buttons (a button is True only in the
\* run its click starts), clicks what the map component returns.
ViewerRun(sp, ep, ty, add, clear, clicks, clear_map) ==
    \E st \in {flags_tab(user_flags, sp, ep, ty, add, clear)} :
        /\ user_flags_map' = map_tab(user_flags_map, clicks, clear_map)
        /\ user_flags' = st.flags
        /\ flag_msg' = st.msg
        /\ start_pct' = sp
        /\ end_pct' = ep
        /\ flag_type' = ty
        /\ UNCHANGED <<coach_vars, export_vars, ibt_vars>>

SetStartPct(p) ==
    /\ p \in 0..1000
    /\ p # start_pct
    /\ ViewerRun(p, end_pct, flag_type, FALSE, FALSE, <<>>, FALSE)

SetEndPct(p) ==
    /\ p \in 0..1000
    /\ p # end_pct
    /\ ViewerRun(start_pct, p, flag_type, FALSE, FALSE, <<>>, FALSE)

SetFlagType(ty) ==
    /\ ty \in Range(FlagTypes)
    /\ ty # flag_type
    /\ ViewerRun(start_pct, end_pct, ty, FALSE, FALSE, <<>>, FALSE)

AddDistanceFlag ==
    /\ end_pct > start_pct => Len(user_flags) < MaxFlags
    /\ ViewerRun(start_pct, end_pct, flag_type, TRUE, FALSE, <<>>, FALSE)

ClearDistanceFlags ==
    ViewerRun(start_pct, end_pct, flag_type, FALSE, TRUE, <<>>, FALSE)

MapClick(pt) ==
    /\ Len(user_flags_map) < MaxMapFlags
    /\ ViewerRun(start_pct, end_pct, flag_type, FALSE, FALSE, <<pt>>, FALSE)

ClearMapFlags ==
    ViewerRun(start_pct, end_pct, flag_type, FALSE, FALSE, <<>>, TRUE)

----------------------------------------------------------------------------
(* build_chatgpt_export of tuner_main.py and of pages/1_Telemetry_Viewer.py.
   A text is a list of lines, a line is [key, str, num]: a header line has
   only str; a line of the JSON block has the key and the string or the
   number (pressures in hundredths of a psi) printed after it. *)

Line(key, str, num) == [key |-> key, str |-> str, num |-> num]
Text(str) == Line("", str, 0)

Placeholder == Text("{{TELEMETRY_JSON_PASTE_HERE}}")

\* CHATGPT_HEADER of tuner_main.py: the data line is followed by an empty
\* line and the end marker
TunerHeader ==
    << Text("(Just paste everything below into ChatGPT and hit Enter.)"),
       Text("=== CHATGPT SETUP COACH INSTRUCTIONS (PASTE THIS WHOLE BLOCK) ==="),
       Text("You are a NASCAR Next Gen setup coach. ..."),
       Text("OK-here is the data:"),
       Text(""),
       Text("End of data. Now give setup changes."),
       Text("=== END INSTRUCTIONS ===") >>

\* the line of three backquotes that opens and closes the code block
Fence == Text("(code fence)")

\* CHATGPT_HEADER of pages/1_Telemetry_Viewer.py
ViewerHeader ==
    << Text("(Just paste everything below into ChatGPT and hit Enter.)"),
       Text("=== CHATGPT SETUP COACH INSTRUCTIONS (PASTE THIS WHOLE BLOCK) ==="),
       Text("You are a NASCAR Next Gen setup coach. ..."),
       Text("OK-here is the data:"),
       Text(""),
       Fence,
       Placeholder,
       Fence,
       Text(""),
       Text("End of data."),
       Text("=== END INSTRUCTIONS ===") >>

CHATGPT_HEADER == [tuner_main |-> TunerHeader, viewer |-> ViewerHeader]

\* round(x * 2) / 2.0 on hundredths
round_to_half(v) == round(v * 2, 100) * 50

PressureKeys == <<"LFpressure", "RFpressure", "LRpressure", "RRpressure">>

\* the summary with its ending pressures rounded in place
round_pressures(summary) ==
    IF "pressures_ending_psi" \in DOMAIN summary
       THEN [summary EXCEPT !.pressures_ending_psi =
                [k \in DOMAIN @ |-> round_to_half(@[k])]]
       ELSE summary

\* json.dumps(summary_dict, indent=2), one list element per line
json_dumps(summary) ==
    LET pe == summary.pressures_ending_psi
        keys == SelectSeq(PressureKeys, LAMBDA k : k \in DOMAIN pe)
    IN  << Text("{"), Line("track", summary.track, 0) >>
        \o (IF "pressures_ending_psi" \in DOMAIN summary
               THEN << Line("pressures_ending_psi", "{", 0) >>
                    \o [i \in DOMAIN keys |-> Line(keys[i], "", pe[keys[i]])]
                    \o << Text("}") >>
               ELSE << >>)
        \o << Text("}") >>

\* str.replace on lines: every line equal to old gives way to the lines of new
RECURSIVE replace(_, _, _)
replace(text, old, new) ==
    IF text = <<>> THEN <<>>
    ELSE (IF Head(text) = old THEN new ELSE <<Head(text)>>)
         \o replace(Tail(text), old, new)

build_chatgpt_export(page, summary_dict) ==
    LET rounded == round_pressures(summary_dict)
    IN  [summary |-> rounded,
         text |-> replace(CHATGPT_HEADER[page], Placeholder, json_dumps(rounded))]

InitExport ==
    /\ export_page = "none"
    /\ export_input = <<>>
    /\ export_summary = <<>>
    /\ export_text = <<>>

\* the export section of a run of the script page on the summary it built
Export(page, summary) ==
    \E r \in {build_chatgpt_export(page, summary)} :
        /\ export_page' = page
        /\ export_input' = summary
        /\ export_summary' = r.summary
        /\ export_text' = r.text
        /\ UNCHANGED <<coach_vars, viewer_vars, ibt_vars>>

----------------------------------------------------------------------------
(* collect_ibt of pages/1_Telemetry_ViewerTest.py: the sample-reading loop.
   A sample maps the channels that gave a value to it; a channel whose read
   raised is absent.  Times are whole seconds. *)

\* last_session_time = None, and sample.get("SessionTime", None) without it
NoTime == -1

\* the locals before the loop: rows, last_session_time, start_time
loop_entry(channels_found, max_seconds) ==
    [pc |-> "loop", stop |-> "", channels_found |-> channels_found,
     max_seconds |-> max_seconds, rows |-> <<>>, last_session_time |-> NoTime,
     elapsed |-> 0]

\* mutant: the elapsed time is not tested
loop_body_untimed(st, sample) ==
    IF DOMAIN sample = {}
       THEN [st EXCEPT !.pc = "done", !.stop = "empty"]
    ELSE LET stime == IF "SessionTime" \in DOMAIN sample
                         THEN sample["SessionTime"] ELSE NoTime
         IN  IF st.last_session_time # NoTime /\ stime = st.last_session_time
                THEN [st EXCEPT !.pc = "done", !.stop = "eof"]
                ELSE [st EXCEPT !.last_session_time = stime,
                                !.rows = Append(@, sample)]

\* one pass of "while True:" on the sample of this tick
loop_body(st, sample) ==
    IF DOMAIN sample = {}
       THEN [st EXCEPT !.pc = "done", !.stop = "empty"]
    ELSE LET stime == IF "SessionTime" \in DOMAIN sample
                         THEN sample["SessionTime"] ELSE NoTime
         IN  IF st.last_session_time # NoTime /\ stime = st.last_session_time
                THEN [st EXCEPT !.pc = "done", !.stop = "eof"]
                ELSE LET st1 == [st EXCEPT !.last_session_time = stime,
                                           !.rows = Append(@, sample)]
                     IN  IF st.elapsed > st.max_seconds
                            THEN [st1 EXCEPT !.pc = "done", !.stop = "timeout"]
                            ELSE st1

\* the values ir[ch] gives at a tick: the channels in raised raise
read_channels(channels_found, raised, session_time) ==
    [ch \in Range(channels_found) \ raised |->
        IF ch = "SessionTime" THEN session_time ELSE 0]

InitIbt ==
    /\ ibt = [pc |-> "idle"]
    /\ ibt_src = [session_time |-> 0, reads |-> 0]

\* collect_ibt is called: the source is opened and the loop entered
CollectIbt(channels_found, max_seconds) ==
    /\ ibt.pc # "loop"
    /\ ibt' = loop_entry(channels_found, max_seconds)
    /\ ibt_src' = [session_time |-> 0, reads |-> 0]
    /\ UNCHANGED <<coach_vars, viewer_vars, export_vars>>

\* one tick: the buffer is frozen (the source has advanced or not), the
\* channels are read, the loop body runs
ReadTick(advance, raised) ==
    /\ ibt.pc = "loop"
    /\ ibt_src.reads < ReadsPerSecond
    /\ \E t \in {ibt_src.session_time + advance} :
          /\ ibt' = loop_body(ibt, read_channels(ibt.channels_found, raised, t))
          /\ ibt_src' = [session_time |-> t, reads |-> ibt_src.reads + 1]
    /\ UNCHANGED <<coach_vars, viewer_vars, export_vars>>

\* a second of wall-clock time passes while the loop runs
ClockTick ==
    /\ ibt.pc = "loop"
    /\ ibt.elapsed <= ibt.max_seconds
    /\ ibt' = [ibt EXCEPT !.elapsed = @ + 1]
    /\ ibt_src' = [ibt_src EXCEPT !.reads = 0]
    /\ UNCHANGED <<coach_vars, viewer_vars, export_vars>>


----------------------------------------------------------------------------
(* Specifications *)

\* temperatures that reach every tier on both sides of the baseline
TempSample == { DefaultBaseline + d : d \in {-21, -11, -6, 0, 6, 11, 21} }

InitWith(d) ==
    LET doc == Docs[d]
        t == InitialTrack(doc)
        labels == Range(corner_labels(corner_list_with_meta(track_object(doc, t))))
    IN  /\ tracks = d
        /\ track_pick = t
        /\ coach_track = t
        /\ coach_feedback = [x \in labels |-> DefaultFeedback]
        /\ widget_feel = [x \in labels |-> Skip]
        /\ widget_sev = [x \in labels |-> 0]
        /\ baseline_temp = DefaultBaseline
        /\ current_temp = DefaultBaseline
        /\ outcome = "idle"
        /\ temp_out = EmptyBlock
        /\ temp_diff = 0
        /\ temp_scale = 0
        /\ per_corner = <<>>
        /\ agg = EmptyBlock
        /\ findings = <<>>
        /\ plan = NoPlan
        /\ run_type = "Practice"
        /\ limits = "fallback"
        /\ InitViewer
        /\ InitExport
        /\ InitIbt

\* Spec: one corner per track, every feeling and severity, sampled temperatures
Init == InitWith("corner")

Next ==
    \/ \E t \in Range(track_names(Docs[tracks])) : PickTrack(t)
    \/ \E c \in DOMAIN widget_feel, f \in Range(DEFAULT_FEELINGS) : SetFeel(c, f)
    \/ \E c \in DOMAIN widget_sev, n \in 0..MaxSeverity : SetSeverity(c, n)
    \/ \E c \in TempSample : SetCurrentTemp(c)
    \/ ComputeSuggestions

Spec == Init /\ [][Next]_vars

\* SpecCircuit: two corners per track, sampled feelings and severities, every
\* temperature within MaxTempDiff of the default (the +/- buttons of the inputs)
FeelSample == {Skip, "Loose on entry", "Tight on exit"}
SevSample == {0, 5}

InitCircuit == InitWith("circuit")

NextCircuit ==
    \/ \E t \in Range(track_names(Docs[tracks])) : PickTrack(t)
    \/ \E c \in DOMAIN widget_feel, f \in FeelSample : SetFeel(c, f)
    \/ \E c \in DOMAIN widget_sev, n \in SevSample : SetSeverity(c, n)
    \/ \E c \in {current_temp - 1, current_temp + 1} :
          /\ Abs(c - DefaultBaseline) <= MaxTempDiff
          /\ SetCurrentTemp(c)
    \/ \E b \in {baseline_temp - 1, baseline_temp + 1} :
          /\ b - DefaultBaseline \in 0..MaxBaselineShift
          /\ SetBaselineTemp(b)
    \/ ComputeSuggestions

SpecCircuit == InitCircuit /\ [][NextCircuit]_vars

\* SpecRules: one corner per track, sampled feedback and temperatures, and a
\* rules file whose "limits" change between runs
SevSampleRules == {0, 2, 9}

InitRules == InitWith("corner")

NextRules ==
    \/ \E t \in Range(track_names(Docs[tracks])) : PickTrack(t)
    \/ \E c \in DOMAIN widget_feel, f \in FeelSample : SetFeel(c, f)
    \/ \E c \in DOMAIN widget_sev, n \in SevSampleRules : SetSeverity(c, n)
    \/ \E c \in TempSample : SetCurrentTemp(c)
    \/ \E r \in DOMAIN LimitTables : EditRules(r)
    \/ \E r \in RunTypes : SetRunType(r)
    \/ ComputeSuggestions

SpecRules == InitRules /\ [][NextRules]_vars

\* SpecNamed: tracks with differently named corners and a chicane, sampled
\* feedback, the temperature on or off the baseline
TempSampleNamed == {DefaultBaseline, DefaultBaseline + 11}

InitNamed == InitWith("named")

NextNamed ==
    \/ \E t \in Range(track_names(Docs[tracks])) : PickTrack(t)
    \/ \E c \in DOMAIN widget_feel, f \in FeelSample : SetFeel(c, f)
    \/ \E c \in DOMAIN widget_sev, n \in SevSample : SetSeverity(c, n)
    \/ \E c \in TempSampleNamed : SetCurrentTemp(c)
    \/ ComputeSuggestions

SpecNamed == InitNamed /\ [][NextNamed]_vars

\* SpecFlags: the Telemetry Viewer with sampled ranges, types and clicks
PctSample == {DefaultStartPct, DefaultEndPct, 300}
FlagTypeSample == {FlagTypes[1], FlagTypes[7]}
ClickSample == {<<10, 20>>, <<150, 20>>}

NextFlags ==
    \/ \E p \in PctSample : SetStartPct(p)
    \/ \E p \in PctSample : SetEndPct(p)
    \/ \E ty \in FlagTypeSample : SetFlagType(ty)
    \/ AddDistanceFlag
    \/ ClearDistanceFlags
    \/ \E pt \in ClickSample : MapClick(pt)
    \/ ClearMapFlags

SpecFlags == Init /\ [][NextFlags]_vars

\* SpecExport: the two export sections on sampled summaries
PsiSample == {2125, 2130, 2150, 2175}
TrackSample == {"Watkins Glen", "Daytona", "Bristol"}

Pressures ==
    { [k \in {"LFpressure"} |-> v] : v \in PsiSample }
    \cup { [k \in {"LFpressure", "RFpressure"} |-> f[k]] :
              f \in [{"LFpressure", "RFpressure"} -> PsiSample] }

SummarySample ==
    { [track |-> t] : t \in TrackSample }
    \cup { [track |-> t, pressures_ending_psi |-> pe] :
              t \in TrackSample, pe \in Pressures }

NextExport ==
    \E page \in DOMAIN CHATGPT_HEADER, summary \in SummarySample : Export(page, summary)

SpecExport == Init /\ [][NextExport]_vars

\* SpecIbt: collect_ibt on sources that advance, repeat or lose channels at
\* any tick.  The loop runs on and wall-clock time passes while it runs.
ChannelsSample == {<<>>, <<"Speed">>, <<"SessionTime">>, <<"Speed", "SessionTime">>}
MaxSecondsSample == {0, 1}
RaisedSample == {{}, {"SessionTime"}, {"Speed", "SessionTime"}}

\* the interpreter and the clock, once the loop is entered
IbtRuns ==
    \/ \E advance \in {0, 1}, raised \in RaisedSample : ReadTick(advance, raised)
    \/ ClockTick

NextIbt ==
    \/ \E chs \in ChannelsSample, m \in MaxSecondsSample : CollectIbt(chs, m)
    \/ IbtRuns

SpecIbt == Init /\ [][NextIbt]_vars /\ WF_vars(IbtRuns)


----------------------------------------------------------------------------
(* Properties *)

Ran == outcome # "idle"

\* the corners of the selected track and the feedback the last run used
CornersNow == corner_list_with_meta(track_object(Docs[tracks], track_pick))

FbOf(meta) == coach_feedback[meta.name]

Active(meta) == FbOf(meta).feels # Skip /\ FbOf(meta).severity > 0

\* the rule lines of a corner after geometry scaling, before any mirroring
Scaled(meta) ==
    scale_deltas_in_strings(
        suggest_for_symptom(FbOf(meta).feels, sev_bucket(FbOf(meta).severity)),
        bank_factor(meta.bank_deg) * angle_factor(meta.angle_deg))

Opposite(side) ==
    CASE side = "LF" -> "RF" [] side = "RF" -> "LF"
      [] side = "LR" -> "RR" [] side = "RR" -> "LR"
      [] OTHER -> side

Renamed(line, side) == [line EXCEPT !.name = <<side, line.name[2]>>]

RECURSIVE SumLens(_, _)
SumLens(items, k) ==
    IF items = <<>> THEN 0
    ELSE (IF IsNone(Head(items).suggestions) THEN 0
          ELSE Len(Head(items).suggestions[k])) + SumLens(Tail(items), k)

\* C1: for a Right corner whose rule yields a side-labelled line, Compute
\* Suggestions completes, the plan holds the line with the opposite side and
\* the same scaled delta and units, and the corner adds no line with the
\* original side (LF <-> RF, LR <-> RR).
C1_RightCornerIsMirrored ==
    Ran => \A i \in DOMAIN CornersNow :
        LET meta == CornersNow[i]
            raw == Scaled(meta)
        IN  (meta.dir = "R" /\ Active(meta)
               /\ \E k \in CategorySet : \E n \in DOMAIN raw[k] : raw[k][n].name[1] # "")
            => /\ outcome = "plan"
               /\ \A k \in CategorySet : \A n \in DOMAIN raw[k] :
                     raw[k][n].name[1] # "" =>
                        /\ InList(Renamed(raw[k][n], Opposite(raw[k][n].name[1])),
                                  plan.recommendations[k])
                        /\ \A j \in DOMAIN per_corner :
                              per_corner[j].corner = meta.name =>
                                 /\ ~IsNone(per_corner[j].suggestions)
                                 /\ ~InList(raw[k][n], per_corner[j].suggestions[k])

\* C2: one corner {dir R, bank 2, angle 150}, baseline = current temperature,
\* "Loose on entry" at severity 8: the tires category of the plan holds
\* "RF_pressure: -2.5 psi" (-1.5 x 1.5625 snapped to 0.5) and no LF_pressure line.
C2_EndToEndScenario ==
    (/\ Ran
     /\ Len(CornersNow) = 1
     /\ CornersNow[1].dir = "R" /\ CornersNow[1].bank_deg = 2
     /\ CornersNow[1].angle_deg = 150
     /\ baseline_temp = current_temp
     /\ FbOf(CornersNow[1]) = [feels |-> "Loose on entry", severity |-> 8])
    => /\ outcome = "plan"
       /\ InList([name |-> <<"RF", "pressure">>, plus |-> FALSE, val |-> -250,
                  units |-> " psi"], plan.recommendations.tires)
       /\ \A n \in DOMAIN plan.recommendations.tires :
             plan.recommendations.tires[n].name # <<"LF", "pressure">>

\* C3: a corner adds a finding and suggestion lines only if its symptom is
\* not "No issue / skip" and its severity is above 0.
C3_OnlyActiveCornersContribute ==
    Ran =>
      /\ \A j \in DOMAIN per_corner :
            \E i \in DOMAIN CornersNow :
               CornersNow[i].name = per_corner[j].corner /\ Active(CornersNow[i])
      /\ \A j \in DOMAIN findings :
            findings[j].kind = "corner" =>
               \E i \in DOMAIN CornersNow :
                  CornersNow[i].name = findings[j].corner /\ Active(CornersNow[i])
      /\ Len(per_corner) <= Cardinality({i \in DOMAIN CornersNow : Active(CornersNow[i])})
      /\ \A k \in CategorySet :
            Len(agg[k]) = Len(temp_out[k]) + SumLens(per_corner, k)

C3_Witness ==
    /\ outcome = "plan"
    /\ per_corner = <<>>
    /\ \E i \in DOMAIN CornersNow :
          FbOf(CornersNow[i]) = [feels |-> Skip, severity |-> MaxSeverity]

Tiers == {"slight", "moderate", "severe"}

\* C4: sev_bucket maps the severities 0..10 onto {slight, moderate, severe}:
\* 1..3 slight, 4..7 moderate, 8..10 severe, and the tier recorded for a
\* corner is the tier of its severity.
C4_SeverityTiering ==
    /\ \A n \in 0..MaxSeverity : sev_bucket(n) \in Tiers
    /\ { sev_bucket(n) : n \in 0..MaxSeverity } = Tiers
    /\ Ran => \A j \in DOMAIN per_corner :
          LET n == coach_feedback[per_corner[j].corner].severity
          IN  /\ n \in 1..3  => per_corner[j].severity = "slight"
              /\ n \in 4..7  => per_corner[j].severity = "moderate"
              /\ n \in 8..10 => per_corner[j].severity = "severe"
              /\ n \in 1..10

C4_Witness ==
    /\ outcome = "plan"
    /\ \E j \in DOMAIN per_corner :
          /\ coach_feedback[per_corner[j].corner].severity = 7
          /\ per_corner[j].severity = "moderate"

\* C5: with diff = current - baseline, |diff| <= 5 gives tier 0 and an empty
\* block in all four categories; 5 < |diff| <= 10 tier 1, 10 < |diff| <= 20
\* tier 2, |diff| > 20 tier 3.
C5_TemperatureTiering ==
    Ran =>
      LET d == current_temp - baseline_temp
      IN  /\ temp_diff = d
          /\ Abs(d) <= 5 => (temp_scale = 0 /\ \A k \in CategorySet : temp_out[k] = <<>>)
          /\ (5 < Abs(d) /\ Abs(d) <= 10) => temp_scale = 1
          /\ (10 < Abs(d) /\ Abs(d) <= 20) => temp_scale = 2
          /\ Abs(d) > 20 => temp_scale = 3
          /\ temp_scale > 0 => \E k \in CategorySet : temp_out[k] # <<>>

C5_Witness ==
    /\ Ran
    /\ baseline_temp = 85 /\ current_temp = 96
    /\ temp_scale = 2

Sign(v) == IF v > 0 THEN 1 ELSE IF v < 0 THEN -1 ELSE 0

Moves(block, k) == { <<block[k][n].name, Sign(block[k][n].val)>> : n \in DOMAIN block[k] }

Sides == {"LF", "RF", "LR", "RR"}

\* C6: outside the deadband the block follows the sign of diff.  Hotter: the
\* four pressures down, the four bump clicks up, rear spring rate and diff
\* preload up.  Cooler: pressures up, bump clicks down, diff preload down,
\* rear ride height up.  No run has lines of both blocks.
C6_TemperatureBlockBySign ==
    (Ran /\ temp_scale > 0) =>
      IF current_temp > baseline_temp
         THEN /\ Moves(temp_out, "tires") = { <<N(sd, "pressure"), -1>> : sd \in Sides }
              /\ Moves(temp_out, "suspension") =
                    { <<N(sd, "shock_bump_clicks"), 1>> : sd \in Sides }
                    \cup { <<N("", "rear_spring_rate"), 1>> }
              /\ Moves(temp_out, "rear_end") = { <<N("", "diff_preload_ftlbs"), 1>> }
              /\ Moves(temp_out, "chassis") = {}
         ELSE /\ current_temp < baseline_temp
              /\ Moves(temp_out, "tires") = { <<N(sd, "pressure"), 1>> : sd \in Sides }
              /\ Moves(temp_out, "suspension") =
                    { <<N(sd, "shock_bump_clicks"), -1>> : sd \in Sides }
              /\ Moves(temp_out, "rear_end") = { <<N("", "diff_preload_ftlbs"), -1>> }
              /\ Moves(temp_out, "chassis") = { <<N("", "rear_ride_height_in"), 1>> }

C6_Witness ==
    /\ outcome = "plan"
    /\ current_temp < baseline_temp
    /\ temp_scale = 3
    /\ Len(plan.recommendations.chassis) > 0


TierOf(d) ==
    IF Abs(d) <= 5 THEN 0 ELSE IF Abs(d) <= 10 THEN 1 ELSE IF Abs(d) <= 20 THEN 2 ELSE 3

TempLine(side, rest, val, units) ==
    [name |-> <<side, rest>>, plus |-> (val > 0), val |-> val, units |-> units]

FourSides == <<"LF", "RF", "LR", "RR">>

\* the temperature block as a function of the temperature difference alone
TempBlockOf(d) ==
    LET n == TierOf(d)
    IN  IF n = 0 THEN EmptyBlock
        ELSE IF d > 0
          THEN [tires |-> [i \in 1..4 |-> TempLine(FourSides[i], "pressure", -50 * n, " psi")],
                chassis |-> <<>>,
                suspension |->
                   [i \in 1..4 |-> TempLine(FourSides[i], "shock_bump_clicks", 100 * n, " clicks")]
                   \o << TempLine("", "rear_spring_rate", 2500 * n, " lb/in") >>,
                rear_end |-> << TempLine("", "diff_preload_ftlbs", 500 * n, " ft-lbs") >>]
          ELSE [tires |-> [i \in 1..4 |-> TempLine(FourSides[i], "pressure", 50 * n, " psi")],
                chassis |-> << TempLine("", "rear_ride_height_in", 5 * n, " in") >>,
                suspension |->
                   [i \in 1..4 |-> TempLine(FourSides[i], "shock_bump_clicks", -100 * n, " clicks")],
                rear_end |-> << TempLine("", "diff_preload_ftlbs", -500 * n, " ft-lbs") >>]

\* C7: the temperature lines of a run are a function of baseline and current
\* temperature only; they enter each category once, unscaled and unmirrored,
\* whatever the corners, symptoms, severities, geometry and directions.
C7_TemperatureLinesIndependent ==
    Ran => \A k \in CategorySet :
        LET T == TempBlockOf(current_temp - baseline_temp)[k]
        IN  /\ Len(agg[k]) = Len(T) + SumLens(per_corner, k)
            /\ SubSeq(agg[k], 1, Len(T)) = T

C7_Witness ==
    /\ outcome = "plan"
    /\ temp_scale > 0
    /\ Len(per_corner) = 2
    /\ per_corner[1].factor # per_corner[2].factor
    /\ per_corner[2].factor # 100 * 100

BankBand(b) == IF b <= 4 THEN 125 ELSE IF b <= 12 THEN 100 ELSE 80

AngleBand(a) == IF a >= 120 THEN 125 ELSE IF a >= 60 THEN 100 ELSE 85

\* C8: the scale factor of a corner is bank_factor x angle_factor, with
\* bank_factor 1.25 / 1.0 / 0.8 for bank <= 4 / <= 12 / > 12 and angle_factor
\* 1.25 / 1.0 / 0.85 for angle >= 120 / >= 60 / < 60; bank 2, angle 150 gives
\* 1.5625 and bank 20, angle 30 gives 0.68.
C8_GeometryFactor ==
    Ran => \A j \in DOMAIN per_corner :
        LET it == per_corner[j]
        IN  /\ \E i \in DOMAIN CornersNow :
                  /\ CornersNow[i].name = it.corner
                  /\ CornersNow[i].bank_deg = it.bank_deg
                  /\ CornersNow[i].angle_deg = it.angle_deg
            /\ it.factor = BankBand(it.bank_deg) * AngleBand(it.angle_deg)
            /\ (it.bank_deg = 2 /\ it.angle_deg = 150) => it.factor = 15625
            /\ (it.bank_deg = 20 /\ it.angle_deg = 30) => it.factor = 6800

C8_Witness ==
    /\ outcome = "plan"
    /\ \E j \in DOMAIN per_corner :
          /\ per_corner[j].bank_deg = 20 /\ per_corner[j].angle_deg = 30
          /\ per_corner[j].factor = 6800

\* the increment of a parameter's family, in hundredths
FamilyIncrement(name) ==
    LET rest == name[2]
    IN  CASE rest = "pressure" -> 50
          [] rest \in {"shock_rebound_clicks", "shock_bump_clicks"} -> 100
          [] rest \in {"front_spring_rate", "rear_spring_rate"} -> 2500
          [] rest \in {"front_ride_height_in", "rear_ride_height_in"} -> 5
          [] rest = "crossweight_percent" -> 10
          [] rest = "rear_trackbar_in" -> 25
          [] rest = "diff_preload_ftlbs" -> 500
          [] rest \in {"front_swaybar_stiffness", "rear_swaybar_stiffness"} -> 100

\* C9: in every plan the delta of every line, temperature-derived or
\* corner-derived after geometry scaling, is an integer multiple of the
\* increment of the parameter's family.
C9_SnappingInvariant ==
    outcome = "plan" =>
        \A k \in CategorySet : \A n \in DOMAIN plan.recommendations[k] :
            plan.recommendations[k][n].val % FamilyIncrement(plan.recommendations[k][n].name) = 0

C9_Witness ==
    /\ outcome = "plan"
    /\ temp_scale > 0
    /\ \E j \in DOMAIN per_corner :
          /\ per_corner[j].factor = 6800
          /\ per_corner[j].severity = "severe"
          /\ per_corner[j].suggestions.chassis # <<>>

\* C10: every line of a plan names a parameter of the allowed-parameter
\* registry and is filed under the one category whose whitelist holds it.
C10_WhitelistInvariant ==
    outcome = "plan" =>
        \A k \in CategorySet : \A n \in DOMAIN plan.recommendations[k] :
            /\ InList(plan.recommendations[k][n].name, ALLOWED[k])
            /\ \A k2 \in CategorySet \ {k} :
                  ~InList(plan.recommendations[k][n].name, ALLOWED[k2])

C10_Witness ==
    /\ outcome = "plan"
    /\ per_corner # <<>>
    /\ temp_scale > 0
    /\ \A k \in CategorySet : plan.recommendations[k] # <<>>
    /\ Len(plan.recommendations.chassis) > Len(temp_out.chassis)


\* C11: no line of a plan has a delta of 0, whatever the symptom, severity
\* tier, bank/angle factor and temperature difference: no rule delta rounds
\* to zero when it is scaled and snapped.
C11_ZeroFiltering ==
    outcome = "plan" =>
        \A k \in CategorySet : \A n \in DOMAIN plan.recommendations[k] :
            plan.recommendations[k][n].val # 0

C11_Witness ==
    /\ outcome = "plan"
    /\ \E j \in DOMAIN per_corner :
          /\ per_corner[j].factor = 6800
          /\ per_corner[j].severity = "slight"
          /\ \E n \in DOMAIN plan.recommendations.chassis :
                Abs(plan.recommendations.chassis[n].val) = LIM.crossweight.increments


\* the lines of category k a Right corner should store: every rule line
\* scaled, then renamed to the opposite side, then kept if the new name is
\* in the registry of k
MirroredThenFiltered(meta, k) ==
    LET OfCat(c) == c.cat = k
        cands == SelectSeq(symptom_rules(FbOf(meta).feels, sev_bucket(FbOf(meta).severity)),
                           OfCat)
        fac == bank_factor(meta.bank_deg) * angle_factor(meta.angle_deg)
        lines == [n \in DOMAIN cands |->
                    LET ln == scale_one(mk_delta(cands[n].name, cands[n].delta,
                                                 cands[n].units), fac)
                    IN  Renamed(ln, Opposite(ln.name[1]))]
        Allowed(ln) == InList(ln.name, ALLOWED[k])
    IN  SelectSeq(lines, Allowed)

\* C12: for a Right corner the rule lines are scaled, then mirrored, then
\* filtered: the corner stores exactly the mirrored lines whose mirrored name
\* is in the registry, and the run completes with them in the plan.
C12_MirrorBeforeFilter ==
    Ran => \A i \in DOMAIN CornersNow :
        (CornersNow[i].dir = "R" /\ Active(CornersNow[i])) =>
            /\ outcome = "plan"
            /\ \E j \in DOMAIN per_corner :
                  /\ per_corner[j].corner = CornersNow[i].name
                  /\ ~IsNone(per_corner[j].suggestions)
                  /\ \A k \in CategorySet :
                        per_corner[j].suggestions[k] =
                            MirroredThenFiltered(CornersNow[i], k)


\* delta x factor snapped to the increment inc (all in hundredths)
SnapTo(delta, factor, inc) == round(delta * factor, inc * 100 * 100) * inc

\* C13: a corner whose direction is not Right stores, and adds to the plan,
\* the lines of its symptom rule with the names and units unchanged and only
\* the deltas scaled by the corner's factor.
C13_NoSwapUnlessRight ==
    Ran => \A j \in DOMAIN per_corner :
        per_corner[j].dir # "R" =>
            /\ ~IsNone(per_corner[j].suggestions)
            /\ \A k \in CategorySet :
                  LET rule == suggest_for_symptom(per_corner[j].feel,
                                                  per_corner[j].severity)[k]
                      got == per_corner[j].suggestions[k]
                  IN  /\ Len(got) = Len(rule)
                      /\ \A n \in DOMAIN rule :
                            /\ got[n].name = rule[n].name
                            /\ got[n].units = rule[n].units
                            /\ got[n].val = SnapTo(rule[n].val, per_corner[j].factor,
                                                   FamilyIncrement(rule[n].name))
                            /\ outcome = "plan" =>
                                  InList(got[n], plan.recommendations[k])

C13_Witness ==
    /\ outcome = "plan"
    /\ \E j \in DOMAIN per_corner :
          /\ per_corner[j].dir = "M"
          /\ per_corner[j].factor = 125 * 100
          /\ \E n \in DOMAIN per_corner[j].suggestions.tires :
                per_corner[j].suggestions.tires[n].name = N("LF", "pressure")


\* the corners of the selected track as tracks.json declares them
RawCorners == Get(track_object(Docs[tracks], track_pick), "corners", <<>>)

\* a track with no corners, or a corner given as a bare name
NoGeometry == RawCorners = <<>> \/ \E n \in DOMAIN RawCorners : RawCorners[n].kind = "str"

\* C14: a symptom that matches no rule and a corner without geometry
\* metadata never make Compute Suggestions raise: the run completes, the
\* input adds no line, and the plan holds the remaining lines.
C14_NeverRaisesOnDataQuality ==
    Ran =>
      /\ NoGeometry => outcome # "raised"
      /\ \A i \in DOMAIN CornersNow :
            (Active(CornersNow[i]) /\ Phrases(FbOf(CornersNow[i]).feels) = {}) =>
                /\ outcome = "plan"
                /\ \E j \in DOMAIN per_corner :
                      /\ per_corner[j].corner = CornersNow[i].name
                      /\ per_corner[j].suggestions = EmptyBlock
                /\ \A k \in CategorySet :
                      Len(plan.recommendations[k]) = Len(temp_out[k]) + SumLens(per_corner, k)


\* the lines of category k of the items, one item after the other
RECURSIVE CornerLines(_, _)
CornerLines(items, k) ==
    IF items = <<>> THEN <<>>
    ELSE Head(items).suggestions[k] \o CornerLines(Tail(items), k)

\* the position of a corner in the track's declaration
DeclIndex(name) == CHOOSE i \in DOMAIN CornersNow : CornersNow[i].name = name

\* C15: each category of a plan is the temperature lines followed by the
\* lines of the contributing corners in declaration order, nothing reordered
\* and nothing interleaved.
C15_ConcatenationOrder ==
    outcome = "plan" =>
        /\ \A a, b \in DOMAIN per_corner :
              a < b => DeclIndex(per_corner[a].corner) < DeclIndex(per_corner[b].corner)
        /\ \A k \in CategorySet :
              plan.recommendations[k] = temp_out[k] \o CornerLines(per_corner, k)

C15_Witness ==
    /\ outcome = "plan"
    /\ temp_scale > 0
    /\ Len(per_corner) = 2
    /\ per_corner[1].suggestions.tires # <<>>
    /\ per_corner[2].suggestions.tires # <<>>
    /\ per_corner[1].suggestions.tires # per_corner[2].suggestions.tires
    /\ plan.recommendations.tires[Len(temp_out.tires) + 1] = per_corner[1].suggestions.tires[1]


\* the corners with a non-skip symptom and a severity above 0, in
\* declaration order
ActiveCorners == SelectSeq(CornersNow, Active)

ExpectedItem(meta) ==
    [corner |-> meta.name, feel |-> FbOf(meta).feels,
     severity |-> sev_bucket(FbOf(meta).severity), dir |-> meta.dir,
     bank_deg |-> meta.bank_deg, angle_deg |-> meta.angle_deg,
     factor |-> BankBand(meta.bank_deg) * AngleBand(meta.angle_deg),
     suggestions |-> Scaled(meta)]

ExpectedItems == [n \in DOMAIN ActiveCorners |-> ExpectedItem(ActiveCorners[n])]

\* the plan as a function of the track, the feedback, the two temperatures,
\* the run type and the tables
ExpectedPlan ==
    [track |-> track_pick, run_type |-> run_type,
     baseline_temp_f |-> baseline_temp, current_temp_f |-> current_temp,
     temp_diff_f |-> current_temp - baseline_temp,
     corners_used |-> ExpectedItems,
     recommendations |->
        [k \in CategorySet |->
            TempBlockOf(current_temp - baseline_temp)[k] \o CornerLines(ExpectedItems, k)],
     limits |-> LIM]

RightActive == \E n \in DOMAIN ActiveCorners : ActiveCorners[n].dir = "R"

\* C17: the result of Compute Suggestions is a function of the track
\* geometry, the feedback, the temperatures and the tables: whatever runs
\* came before, with whatever inputs, the same inputs give the same plan and
\* nothing of an earlier run is in it.
C17_NoCrossRunMemory ==
    Ran =>
        /\ outcome = "raised" <=> RightActive
        /\ outcome = "nothing" <=>
              (ActiveCorners = <<>> /\ TierOf(current_temp - baseline_temp) = 0)
        /\ outcome = "plan" => plan = ExpectedPlan
        /\ outcome # "plan" => plan = NoPlan

C17_Witness ==
    /\ outcome = "plan"
    /\ plan.temp_diff_f < 0
    /\ Len(plan.corners_used) = 2
    /\ plan.corners_used[1].feel # plan.corners_used[2].feel
    /\ Len(plan.recommendations.chassis) > 1 + Len(plan.corners_used[1].suggestions.chassis)


NothingToChange ==
    ActiveCorners = <<>> /\ TierOf(current_temp - baseline_temp) = 0

\* C18 as claimed: every Compute Suggestions invocation builds a plan; with
\* no symptom and a temperature within the deadband the plan has four empty
\* category lists and no findings.
C18_AlwaysAPlan ==
    Ran =>
        /\ outcome = "plan"
        /\ ~IsNone(plan)
        /\ NothingToChange =>
              /\ \A k \in CategorySet : plan.recommendations[k] = <<>>
              /\ findings = <<>>

\* C18 amended: with no symptom and a temperature within the deadband the
\* run builds no plan and shows no findings and no category lists, only the
\* "Nothing to change" message; a plan is built only when some corner has a
\* symptom or the temperature tier is above 0.
C18_NoPlanWhenNothingToChange ==
    Ran =>
        /\ NothingToChange =>
              /\ outcome = "nothing"
              /\ IsNone(plan)
              /\ findings = <<>>
              /\ per_corner = <<>>
              /\ \A k \in CategorySet : agg[k] = <<>>
        /\ outcome = "plan" => (~IsNone(plan) /\ ~NothingToChange)

C18_Witness ==
    /\ outcome = "nothing"
    /\ Abs(current_temp - baseline_temp) = 5
    /\ \E i \in DOMAIN CornersNow :
          FbOf(CornersNow[i]).feels # Skip /\ FbOf(CornersNow[i]).severity = 0


\* the limit family of a parameter; the sway bars have none
FamilyOf(name) ==
    LET rest == name[2]
    IN  CASE rest = "pressure" -> "pressure"
          [] rest \in {"shock_rebound_clicks", "shock_bump_clicks"} -> "shock_clicks"
          [] rest \in {"front_spring_rate", "rear_spring_rate"} -> "spring_rate"
          [] rest \in {"front_ride_height_in", "rear_ride_height_in"} -> "ride_height"
          [] rest = "crossweight_percent" -> "crossweight"
          [] rest = "rear_trackbar_in" -> "trackbar"
          [] rest = "diff_preload_ftlbs" -> "diff_preload"
          [] OTHER -> "none"

\* C19: in every plan the size of every line's delta is at most max - min of
\* the limits of the line's family, for every symptom, severity tier, scale
\* factor and temperature difference.
C19_DeltaWithinRange ==
    outcome = "plan" =>
        \A k \in CategorySet : \A n \in DOMAIN plan.recommendations[k] :
            LET ln == plan.recommendations[k][n]
                fam == FamilyOf(ln.name)
            IN  fam # "none" => Abs(ln.val) <= LIM[fam].max - LIM[fam].min

C19_Witness ==
    /\ outcome = "plan"
    /\ temp_scale = 3
    /\ \E j \in DOMAIN per_corner :
          /\ per_corner[j].factor = 125 * 125
          /\ per_corner[j].severity = "severe"
    /\ \E n \in DOMAIN plan.recommendations.suspension :
          /\ FamilyOf(plan.recommendations.suspension[n].name) = "shock_clicks"
          /\ Abs(plan.recommendations.suspension[n].val) = 5 * LIM.shock_clicks.increments


\* two limit tables that differ in min/max only
SameIncrements(a, b) ==
    /\ DOMAIN a = DOMAIN b
    /\ \A fam \in DOMAIN a : a[fam].increments = b[fam].increments

\* a plan on the page, built under the table now in force or under the one
\* the rules file held before: its lines are those of a run under LIM
SameUnderOtherLimits ==
    outcome = "plan" =>
        /\ SameIncrements(plan.limits, LIM)
        /\ plan.recommendations = ExpectedPlan.recommendations

\* a run that builds a plan hands over the table it loaded, as it is
LimitsPassedThrough ==
    (outcome' = "plan" /\ limits' = limits) => plan'.limits = LimitTables[limits']

\* C20: the min/max of the limit table are advisory: a plan built under one
\* table has the recommendations a run with the same inputs builds under a
\* table that differs in min/max only, and a run passes the table in force
\* through unchanged as the plan's limits.
C20_LimitsAdvisory == [](SameUnderOtherLimits) /\ [][LimitsPassedThrough]_vars

C20_Witness ==
    /\ outcome = "plan"
    /\ plan.limits # LIM
    /\ plan.limits = LimitTables.file
    /\ temp_scale > 0
    /\ \E j \in DOMAIN per_corner : per_corner[j].suggestions.tires # <<>>


Negated(line) == [line EXCEPT !.val = -line.val, !.plus = (line.val < 0)]

\* all lines of a block with their category: <<k, n>>
LinesOf(block) == { <<k, n>> : k \in CategorySet, n \in 1..8 } \cap
                  UNION { { <<k, n>> : n \in DOMAIN block[k] } : k \in CategorySet }

\* C21: the scaled delta of a corner line is the multiple of the family
\* increment nearest to delta x factor; it keeps the sign of the delta, the
\* scaled value of the negated delta is the negation of the scaled value, and
\* lines of the same multiplier end on the same multiple in every family
\* (one tie rule for all).
C21_NearestAndSignSymmetric ==
    Ran => \A j \in DOMAIN per_corner :
        per_corner[j].dir # "R" =>
            LET rule == suggest_for_symptom(per_corner[j].feel, per_corner[j].severity)
                got == per_corner[j].suggestions
                f == per_corner[j].factor
                Inc(p) == FamilyIncrement(rule[p[1]][p[2]].name)
                Dl(p) == rule[p[1]][p[2]].val
                Gl(p) == got[p[1]][p[2]].val
            IN  \A p \in LinesOf(rule) :
                    /\ Gl(p) % Inc(p) = 0
                    /\ 2 * Abs(Gl(p) * 100 * 100 - Dl(p) * f) <= Inc(p) * 100 * 100
                    /\ Sign(Gl(p)) = Sign(Dl(p))
                    /\ scale_one(Negated(rule[p[1]][p[2]]), f).val = -Gl(p)
                    /\ \A q \in LinesOf(rule) :
                          Abs(Dl(p)) * Inc(q) = Abs(Dl(q)) * Inc(p) =>
                              Abs(Gl(p)) * Inc(q) = Abs(Gl(q)) * Inc(p)

C21_Witness ==
    /\ outcome = "plan"
    /\ \E j \in DOMAIN per_corner :
          /\ per_corner[j].factor = 125 * 100
          /\ per_corner[j].severity = "moderate"
          /\ \E n \in DOMAIN per_corner[j].suggestions.chassis :
                per_corner[j].suggestions.chassis[n].val = 2 * LIM.crossweight.increments
          /\ \E n \in DOMAIN per_corner[j].suggestions.tires :
                per_corner[j].suggestions.tires[n].val = -2 * LIM.pressure.increments

\* C22: every recommendation line of a plan shows its delta signed: a positive
\* delta carries an explicit '+', a negative one its '-', for temperature
\* lines and for corner lines after geometry scaling alike.
C22_ExplicitSign ==
    outcome = "plan" =>
        \A k \in CategorySet : \A n \in DOMAIN plan.recommendations[k] :
            LET line == plan.recommendations[k][n]
            IN  /\ line.val > 0 => line.plus
                /\ line.val < 0 => ~line.plus

IsList(x) == DOMAIN x = 1..Len(x)

FourLists(rec) ==
    /\ DOMAIN rec = CategorySet
    /\ \A k \in CategorySet : IsList(rec[k])

\* C23 as stated: the plan has the fields track, run_type, baseline_temp_f,
\* current_temp_f, findings (a list of strings) and recommendations, the
\* latter with exactly the four category lists.
C23_PlanFieldsWithFindings ==
    outcome = "plan" =>
        /\ {"track", "run_type", "baseline_temp_f", "current_temp_f",
            "findings", "recommendations"} \subseteq DOMAIN plan
        /\ FourLists(plan.recommendations)

\* C23 amended: the plan has exactly the fields track, run_type,
\* baseline_temp_f, current_temp_f, temp_diff_f, corners_used, recommendations
\* and limits, and no findings; the first four hold the sidebar and
\* temperature inputs of the run, temp_diff_f their difference, and
\* recommendations exactly the four category lists.
C23_PlanFields ==
    outcome = "plan" =>
        /\ DOMAIN plan = {"track", "run_type", "baseline_temp_f", "current_temp_f",
                          "temp_diff_f", "corners_used", "recommendations", "limits"}
        /\ plan.track = track_pick
        /\ plan.run_type = run_type
        /\ plan.baseline_temp_f = baseline_temp
        /\ plan.current_temp_f = current_temp
        /\ plan.temp_diff_f = current_temp - baseline_temp
        /\ FourLists(plan.recommendations)

C23_Witness ==
    /\ outcome = "plan"
    /\ plan.run_type = "Race"
    /\ plan.temp_diff_f # 0
    /\ plan.corners_used # <<>>
    /\ \E k \in CategorySet : Len(plan.recommendations[k]) > 2

NegatedBlock(block) ==
    [k \in DOMAIN block |-> [n \in DOMAIN block[k] |-> Negated(block[k][n])]]

NamesOf(block) ==
    { block[p[1]][p[2]].name : p \in LinesOf(block) }

\* the temperature block of the same run with the two temperatures exchanged
ExchangedTempBlock == suggest_for_temp(current_temp, baseline_temp)

\* C24: at every tier 1..3 the hotter block with every delta negated is not the
\* cooler block of the same tier (and conversely): only the hotter block moves
\* rear_spring_rate and only the cooler block moves rear_ride_height_in.
C24_HotterIsNotNegatedCooler ==
    (Ran /\ temp_scale > 0) =>
        LET hot == IF temp_diff > 0 THEN temp_out ELSE ExchangedTempBlock.out
            cold == IF temp_diff > 0 THEN ExchangedTempBlock.out ELSE temp_out
        IN  /\ ExchangedTempBlock.scale = temp_scale
            /\ ExchangedTempBlock.diff = -temp_diff
            /\ NegatedBlock(hot) # cold
            /\ NegatedBlock(cold) # hot
            /\ N("", "rear_spring_rate") \in NamesOf(hot) \ NamesOf(cold)
            /\ N("", "rear_ride_height_in") \in NamesOf(cold) \ NamesOf(hot)

C24_Witness ==
    /\ Ran
    /\ temp_scale = 3
    /\ temp_diff < 0
    /\ Len(temp_out.chassis) = 1
    /\ Len(ExchangedTempBlock.out.chassis) = 0

TierNumber(sev) == IF sev = "slight" THEN 1 ELSE IF sev = "moderate" THEN 2 ELSE 3

TimesBlock(block, m) ==
    [k \in DOMAIN block |->
        [n \in DOMAIN block[k] |-> [block[k][n] EXCEPT !.val = m * block[k][n].val]]]

\* every delta of the block is m increments of its family, up or down
AllOfMagnitude(block, m) ==
    \A p \in LinesOf(block) :
        Abs(block[p[1]][p[2]].val) = m * FamilyIncrement(block[p[1]][p[2]].name)

\* C25: before geometry scaling every line of the rule block of a contributing
\* corner has magnitude (1 slight, 2 moderate, 3 severe) x (increment of the
\* family) and the block is the slight block of the symptom with every delta
\* multiplied by that number; every temperature line has magnitude
\* (temperature tier) x (increment of the family).
C25_TierTimesIncrement ==
    Ran =>
        /\ \A j \in DOMAIN per_corner :
              LET rule == suggest_for_symptom(per_corner[j].feel, per_corner[j].severity)
                  m == TierNumber(per_corner[j].severity)
              IN  /\ AllOfMagnitude(rule, m)
                  /\ rule = TimesBlock(suggest_for_symptom(per_corner[j].feel, "slight"), m)
        /\ AllOfMagnitude(temp_out, temp_scale)

C25_Witness ==
    /\ outcome = "plan"
    /\ temp_scale = 2
    /\ \E j \in DOMAIN per_corner :
          /\ per_corner[j].severity = "severe"
          /\ per_corner[j].feel = "Loose mid-corner"
          /\ per_corner[j].factor # 100 * 100

\* C26: every corner of the selected track has a direction among L, R, M
\* (bank and angle filled in), and a run whose corners with a symptom are no
\* right-handers gets through the direction labels of the Key Findings.
C26_DirectionLabelLookup ==
    /\ \A i \in DOMAIN CornersNow :
          /\ CornersNow[i].dir \in {"L", "R", "M"}
          /\ CornersNow[i].bank_deg \in Int
          /\ CornersNow[i].angle_deg \in Int
    /\ (Ran /\ ~RightActive) => outcome # "raised"

LabelsNow == Range(corner_labels(CornersNow))

\* C27: after every run (track selection, widget edit, compute click) the
\* session's coach_feedback belongs to the selected track and has an entry for
\* every corner name of it, so no lookup of the input loop misses, and the
\* corners a Compute Suggestions run used are corners with an entry.
C27_FeedbackCoversCorners ==
    /\ coach_track = track_pick
    /\ LabelsNow \subseteq DOMAIN coach_feedback
    /\ DOMAIN widget_feel = LabelsNow
    /\ DOMAIN widget_sev = LabelsNow
    /\ \A j \in DOMAIN per_corner : per_corner[j].corner \in DOMAIN coach_feedback

\* a plan on the track selected second, which has a corner the first lacks
C27_Witness ==
    /\ track_pick = "Road course"
    /\ outcome = "plan"
    /\ "Bus Stop" \in DOMAIN coach_feedback
    /\ "T3" \notin DOMAIN coach_feedback
    /\ \E j \in DOMAIN per_corner : per_corner[j].corner = "T1"

AllFlagsOrdered ==
    \A n \in DOMAIN user_flags : user_flags[n].start_pct < user_flags[n].end_pct

\* what a run of the Flags & Export tab may do to the flags, by its report
FlagStep ==
    /\ flag_msg' = "warning" =>
          /\ end_pct' <= start_pct'
          /\ user_flags' = user_flags
    /\ flag_msg' = "added" =>
          /\ start_pct' < end_pct'
          /\ Len(user_flags') = Len(user_flags) + 1
          /\ SubSeq(user_flags', 1, Len(user_flags)) = user_flags
          /\ user_flags'[Len(user_flags')].start_pct = start_pct'
          /\ user_flags'[Len(user_flags')].end_pct = end_pct'
    /\ flag_msg' = "cleared" =>
          /\ user_flags' = <<>>
          /\ user_flags_map' = user_flags_map
    /\ flag_msg' = "none" => user_flags' = user_flags

\* C28: every stored distance flag has start_pct < end_pct; an add with
\* end_pct <= start_pct warns and leaves user_flags as it was, a valid add
\* appends exactly one flag, and a clear empties user_flags and leaves
\* user_flags_map as it was.
C28_DistanceFlags == [](AllFlagsOrdered) /\ [][FlagStep]_vars

C28_Witness ==
    /\ flag_msg = "warning"
    /\ Len(user_flags) > 1
    /\ user_flags_map # <<>>

DataLine == Text("OK-here is the data:")
EndMarkers == { Text("End of data. Now give setup changes."), Text("End of data.") }

\* block occurs in text strictly between two lines with indices i < j
Between(text, block, i, j) ==
    \E k \in (i + 1)..(j - 1) :
        /\ k + Len(block) - 1 < j
        /\ SubSeq(text, k, k + Len(block) - 1) = block

\* C29: the exported text of either script holds the JSON of the summary
\* (as the function serializes it, pressures rounded) in place of the
\* placeholder, between the 'here is the data' line and the 'End of data'
\* marker.
C29_ExportHoldsJson ==
    export_page # "none" =>
        /\ Placeholder \notin Range(export_text)
        /\ \E i, j \in DOMAIN export_text :
              /\ export_text[i] = DataLine
              /\ export_text[j] \in EndMarkers
              /\ Between(export_text, json_dumps(export_summary), i, j)

\* how a pass of the loop may leave it
StopRule ==
    (ibt.pc = "loop" /\ ibt'.pc = "done") =>
        \/ /\ ibt'.stop = "empty"
           /\ ibt'.rows = ibt.rows
        \/ /\ ibt'.stop = "eof"
           /\ ibt'.rows = ibt.rows
           /\ ibt.last_session_time # NoTime
           /\ ibt_src'.session_time = ibt.last_session_time
           /\ "SessionTime" \in Range(ibt.channels_found)
        \/ /\ ibt'.stop = "timeout"
           /\ ibt.elapsed > ibt.max_seconds
           /\ Len(ibt'.rows) = Len(ibt.rows) + 1

\* a pass that stays in the loop has appended a sample with a value, whose
\* SessionTime is not the previous one, before max_seconds had elapsed
ContinueRule ==
    (ibt.pc = "loop" /\ ibt'.pc = "loop" /\ ibt_src'.reads > ibt_src.reads) =>
        /\ Len(ibt'.rows) = Len(ibt.rows) + 1
        /\ DOMAIN ibt'.rows[Len(ibt'.rows)] # {}
        /\ ibt.last_session_time = NoTime
              \/ ibt'.last_session_time # ibt.last_session_time
        /\ ibt.elapsed <= ibt.max_seconds

\* C30: the sample-reading loop of collect_ibt always ends, with or without
\* SessionTime among the channels; it ends on a tick without any channel
\* value, on a tick whose SessionTime equals the previous one (that sample is
\* not appended), or after a pass made once max_seconds have elapsed.
C30_LoopTerminates ==
    /\ (ibt.pc = "loop") ~> (ibt.pc = "done")
    /\ [][StopRule /\ ContinueRule]_vars

C30_Witness ==
    /\ ibt.pc = "done"
    /\ ibt.stop = "timeout"
    /\ "SessionTime" \notin Range(ibt.channels_found)
    /\ Len(ibt.rows) > 1

====
